---- MODULE Spec2Model ----
(***************************************************************************)
(* One /media-stream session of src/main.py (handle_media_stream): the     *)
(* transport-receive loop, the recognizer callback on_message, the turn    *)
(* tasks it spawns (process_agent_turn) and the speech sink (handle_tts),  *)
(* all coroutines of one asyncio event loop.                               *)
(*                                                                         *)
(* A coroutine runs without interruption between two awaits.  `running'    *)
(* names the turn that occupies the event loop in a synchronous stretch    *)
(* (the tool calls of lines 236-239 are plain calls, not awaits); no other *)
(* coroutine steps while it is set.                                        *)
(***************************************************************************)
EXTENDS Integers, Sequences, FiniteSets, TLC

\* ------------------------------------------------------------------ bounds
MaxTurns  == 3      \* turns dispatched by on_message
ToolTurns == 1      \* turns dispatched in the runs of the tool loop
LoopTurns == 2      \* turns dispatched in the runs of the agent loop under contention
MaxCalls  == 2      \* tool calls requested by the model in one session
LoopCalls == 1      \* the same in the runs of the agent loop under contention
MaxBatch  == 2      \* tool calls in one model response
MaxFaults == 1      \* failures of collaborators (model, tool, synthesizer)
MaxStarts == 1      \* transport start events
MaxMedia  == 1      \* transport media frames forwarded to the recognizer

\* --------------------------------------------------------------- constants
NoSid == 0                                   \* stream_sid = None
Turns == 1..MaxTurns
Coroutines == 0..MaxTurns                    \* 0: the receive loop
Chunks == 1..(MaxCalls + MaxStarts + 1)      \* chunk numbers of one coroutine
Registered == {"send_email", "web_search"}   \* tools = [send_email, web_search]
ToolNames == Registered \cup {"lookup_order"}
SP == " "
Texts == {<<>>, <<SP>>, <<"h">>}             \* transcripts, as character sequences

\* ----------------------------------------------------------------- helpers
\* Python truthiness of a str
Truthy(s) == Len(s) > 0

RECURSIVE LStrip(_)
LStrip(s) == IF s # <<>> /\ Head(s) = SP THEN LStrip(Tail(s)) ELSE s

RECURSIVE RStrip(_)
RStrip(s) == IF s # <<>> /\ s[Len(s)] = SP THEN RStrip(SubSeq(s, 1, Len(s) - 1)) ELSE s

\* str.strip()
Trim(s) == RStrip(LStrip(s))

InSeq(x, s) == \E i \in 1..Len(s) : s[i] = x

\* a transcript event: result.channel.alternatives (zero or one alternative)
\* and result.is_final
TranscriptEvents == [alternatives : {<<>>} \cup {<<x>> : x \in Texts}, is_final : BOOLEAN]

EventText(e) == IF e.alternatives = <<>> THEN <<>> ELSE e.alternatives[1]

\* messages of chat_history
Msg(role, uid, calls, call_id, content) ==
    [role |-> role, uid |-> uid, calls |-> calls, call_id |-> call_id, content |-> content]

SystemMessage == Msg("system", 0, <<>>, 0, "SYSTEM_PROMPT")
HumanMessage(uid, text) == Msg("user", uid, <<>>, 0, text)
AIMessage(uid, calls, content) == Msg("assistant", uid, calls, 0, content)
ToolMessage(uid, content, id) == Msg("tool", uid, <<>>, id, content)

\* entries of the session log and of the outbound transport, in program order
Ev(ev, t, c, call, sid) == [ev |-> ev, turn |-> t, c |-> c, call |-> call, sid |-> sid]

\* what llm_with_tools.ainvoke can do: raise, answer in text, or request tools
NameSeqs == UNION {[1..k -> ToolNames] : k \in 1..MaxBatch}
LlmResponses ==
    {[kind |-> "error", content |-> "", names |-> <<>>]}
    \cup {[kind |-> "text", content |-> c, names |-> <<>>] : c \in {"", "answer"}}
    \cup {[kind |-> "tools", content |-> "", names |-> n] : n \in NameSeqs}

\* what the POST to the synthesizer can do: 200, another status, or raise
TtsOutcomes == {"200", "status", "raise"}

\* what <tool>.invoke(args) can do: return a result, return an error string
\* (every failure inside the tool body), or raise (args rejected by the schema)
ToolOutcomes == {"result", "error_string", "raise"}

\* frames the transport can deliver to receive_text
TransportMsgs == {"start", "media", "mark", "stop", "malformed"}

\* ----------------------------------------------------------- HTTP surface
\* strings that the code inspects or builds, as character sequences
Ngrok == <<"n", "g", "r", "o", "k">>
Ws == <<"w", "s">>
Wss == <<"w", "s", "s">>
MediaStreamPath == <<"/", "m", "e", "d", "i", "a", "-", "s", "t", "r", "e", "a", "m">>

\* Python `sub in s' for str
Contains(s, sub) ==
    \E i \in 0..(Len(s) - Len(sub)) : SubSeq(s, i + 1, i + Len(sub)) = sub

\* request.url.netloc values
Hosts == {<<>>,
          <<"h">>,
          Ngrok,
          <<"a", ".", "n", "g", "r", "o", "k", ".", "i", "o">>,
          <<"n", "g", "r", "o", ".", "k">>,
          <<"N", "G", "R", "O", "K">>}

\* the x-forwarded-proto header: absent, or one value
ProtoHeaders == {<<>>, <<"https">>, <<"http">>, <<"HTTPS">>}

\* the form of the request: empty, or the field SpeechResult
Forms == {<<>>, <<"SpeechResult">>}

HttpRequests ==
    [method : {"GET", "POST"},
     path : {"/voice", "/respond", "/media-stream", "/"},
     host : Hosts,
     proto : ProtoHeaders,
     form : Forms]

\* an XML element: tag, url attribute (<<>> when it has none), children
Element(tag, url, children) == [tag |-> tag, url |-> url, children |-> children]

NoDoc == Element("", <<>>, <<>>)

HttpResponse(status, media_type, doc) ==
    [status |-> status, media_type |-> media_type, doc |-> doc]

NoExchange ==
    [req |-> [method |-> "", path |-> "", host |-> <<>>, proto |-> <<>>, form |-> <<>>],
     resp |-> HttpResponse(0, "", NoDoc)]

\* line 146
IsSecureProtoOnly(proto, host) == proto = <<"https">>

IsSecure(proto, host) == proto = <<"https">> \/ Contains(host, Ngrok)

\* lines 142-153
voice_webhook(req) ==
    LET scheme == IF IsSecure(req.proto, req.host) THEN Wss ELSE Ws
        stream_url == scheme \o <<":", "/", "/">> \o req.host \o MediaStreamPath
        connect == Element("Connect", <<>>, <<Element("Stream", stream_url, <<>>)>>)
    IN HttpResponse(200, "application/xml", Element("Response", <<>>, <<connect>>))

\* the routes of app answering HTTP requests (line 140; the route of line 161
\* answers websocket handshakes only)
HttpRoutes == {"/voice"}

\* the router of app: the handler of the route, 405 for another method on a
\* route, 404 for a path without route
Serve(req) ==
    IF req.path \notin HttpRoutes THEN HttpResponse(404, "application/json", NoDoc)
    ELSE IF req.method # "POST" THEN HttpResponse(405, "application/json", NoDoc)
    ELSE voice_webhook(req)

VARIABLES
    rxpc,          \* position of handle_media_stream
    wsOpen,        \* the websocket connection is up
    dg,            \* recognizer connection: "new", "started", "finished"
    stream_sid,    \* nonlocal stream_sid
    nstarts,       \* start events received
    chat_history,  \* chat_history
    locked,        \* processing_lock._locked
    waiters,       \* processing_lock._waiters
    ready,         \* event loop's queue of turn tasks scheduled to run
    turn,          \* the tasks created by on_message, by dispatch number
    running,       \* turn in a synchronous stretch, 0 when the loop is free
    nextId,        \* next tool-call identifier the model will issue
    tts,           \* synthesis requests in flight (handle_tts awaiting the POST)
    fed,           \* media frames passed to dg_connection.send
    faults,        \* collaborator failures so far
    rxlog,         \* log entries and outbound frames of the receive loop, in order
    log,           \* log entries and outbound frames of the turns, in order
    http           \* the last HTTP request served by app and its response

vars == <<rxpc, wsOpen, dg, stream_sid, nstarts, chat_history, locked, waiters,
          ready, turn, running, nextId, tts, fed, faults, rxlog, log, http>>

NoTurn == [pc |-> "none", sid |-> NoSid, text |-> <<>>, calls |-> <<>>, idx |-> 0,
           nc |-> 0,
           pos |-> 0,
           more |-> 0]

Init ==
    /\ rxpc = "dgstart"
    /\ wsOpen = TRUE
    /\ dg = "new"
    /\ stream_sid = NoSid
    /\ nstarts = 0
    /\ chat_history = <<SystemMessage>>
    /\ locked = FALSE
    /\ waiters = <<>>
    /\ ready = <<>>
    /\ turn = [t \in Turns |-> NoTurn]
    /\ running = 0
    /\ nextId = 1
    /\ tts = {}
    /\ fed = 0
    /\ faults = 0
    /\ rxlog = <<>>
    /\ log = <<>>
    /\ http = NoExchange

\* ------------------------------------------------------ processing_lock
\* asyncio.Lock.acquire takes the lock at once only when it is free and no
\* waiter is queued
CanAcquireNoLock == TRUE

CanAcquire == ~locked /\ waiters = <<>>

\* asyncio.Lock.acquire otherwise queues the caller
EnqueueDropped(w, t) == w

Enqueue(w, t) == Append(w, t)

\* asyncio.Lock.release wakes the first waiter: its task is scheduled to run
WakeUpLast(rdy, w) ==
    IF w # <<>> /\ ~InSeq(w[Len(w)], rdy) THEN Append(rdy, w[Len(w)]) ELSE rdy

WakeUpFirst(rdy, w) ==
    IF w # <<>> /\ ~InSeq(Head(w), rdy) THEN Append(rdy, Head(w)) ELSE rdy

\* `async with' releases the lock on every exit, exception or not
LockHeldOnFailure(failed) == failed

LockAfterExit(failed) == FALSE

\* the event loop runs scheduled tasks first in, first out
NextReady(rdy) == Head(rdy)

Remove(s, x) == SelectSeq(s, LAMBDA y : y # x)

\* ------------------------------------------------------------ handle_tts
\* the three calls of handle_tts in a turn and the greeting are awaited
AwaitedExceptAck(kind) == kind # "ack"

AwaitedExceptFinal(kind) == kind # "final"

Awaited(kind) == TRUE

\* a synthesis request of coroutine t (0: the receive loop), its c-th chunk
Pending(t, c, call, sid) == [turn |-> t, c |-> c, call |-> call, sid |-> sid]

\* lines 186-200: what the return of the POST puts on the transport or in the log
TtsEffectAnyStatus(p, o) ==
    IF o \in {"200", "status"}
    THEN IF wsOpen THEN <<Ev("frame", p.turn, p.c, p.call, p.sid)>>
                   ELSE <<Ev("tts_exception", p.turn, p.c, p.call, p.sid)>>
    ELSE <<Ev("tts_exception", p.turn, p.c, p.call, p.sid)>>

TtsEffect(p, o) ==
    IF o = "200"
    THEN IF wsOpen THEN <<Ev("frame", p.turn, p.c, p.call, p.sid)>>
                   ELSE <<Ev("tts_exception", p.turn, p.c, p.call, p.sid)>>
    ELSE IF o = "status" THEN <<Ev("tts_error", p.turn, p.c, p.call, p.sid)>>
    ELSE <<Ev("tts_exception", p.turn, p.c, p.call, p.sid)>>

\* ------------------------------------------------------ process_agent_turn
\* lines 248-249: the handler of a failed turn logs and says nothing
SpokenOnFailureApology(t, c, sid) == {Pending(t, c, 0, sid)}

SpokenOnFailure(t, c, sid) == {}

NTasks == Cardinality({t \in Turns : turn[t].pc # "none"})

\* leaving `async with processing_lock', after `pre' was logged
EndTurn(t, failed, pre) ==
    /\ turn' = [turn EXCEPT ![t].pc = "done"]
    /\ locked' = LockAfterExit(failed)
    /\ ready' = IF locked' THEN ready ELSE WakeUpFirst(ready, waiters)
    /\ running' = 0
    /\ log' = log \o pre \o <<Ev("release", t, 0, 0, turn[t].sid)>>

\* the task reaches `async with processing_lock' (first run) or is resumed
\* in acquire (woken waiter); holding the lock it appends the user message
\* and awaits the model
TaskStart(t) ==
    /\ running = 0
    /\ ready # <<>>
    /\ t = NextReady(ready)
    /\ \/ /\ turn[t].pc = "ready"
          /\ CanAcquire
          /\ locked' = TRUE
          /\ waiters' = waiters
          /\ chat_history' = Append(chat_history, HumanMessage(t, turn[t].text))
          /\ turn' = [turn EXCEPT ![t].pc = "llm"]
          /\ log' = Append(log, Ev("acquire", t, 0, 0, turn[t].sid))
       \/ /\ turn[t].pc = "ready"
          /\ ~CanAcquire
          /\ waiters' = Enqueue(waiters, t)
          /\ turn' = [turn EXCEPT ![t].pc = "waiting", ![t].pos = Len(waiters')]
          /\ UNCHANGED <<locked, chat_history, log>>
       \/ /\ turn[t].pc = "waiting"
          /\ locked' = TRUE
          /\ waiters' = Remove(waiters, t)
          /\ chat_history' = Append(chat_history, HumanMessage(t, turn[t].text))
          /\ turn' = [turn EXCEPT ![t].pc = "llm"]
          /\ log' = Append(log, Ev("acquire", t, 0, 0, turn[t].sid))
    /\ ready' = Remove(ready, t)
    /\ UNCHANGED <<rxpc, wsOpen, dg, stream_sid, nstarts, running, nextId, tts, fed,
                   faults, rxlog>>
    /\ UNCHANGED http

\* llm_with_tools.ainvoke returns or raises (lines 211-217, 248-249)
LlmReturn(t, r) ==
    /\ running = 0
    /\ turn[t].pc = "llm"
    /\ \/ /\ r.kind = "error"
          /\ faults < MaxFaults
          /\ faults' = faults + 1
          /\ EndTurn(t, TRUE, <<Ev("agent_error", t, 0, 0, turn[t].sid)>>)
          /\ tts' = tts \cup SpokenOnFailure(t, turn[t].nc + 1, turn[t].sid)
          /\ UNCHANGED <<chat_history, nextId>>
       \/ /\ r.kind = "text"
          /\ chat_history' = Append(chat_history, AIMessage(t, <<>>, r.content))
          /\ IF r.content # ""
             THEN /\ tts' = tts \cup {Pending(t, turn[t].nc + 1, 0, turn[t].sid)}
                  /\ IF Awaited("final")
                     THEN /\ turn' = [turn EXCEPT ![t].pc = "final", ![t].nc = @ + 1]
                          /\ UNCHANGED <<locked, ready, running, log>>
                     ELSE EndTurn(t, FALSE, <<>>)
             ELSE /\ EndTurn(t, FALSE, <<>>)
                  /\ tts' = tts
          /\ UNCHANGED <<nextId, faults>>
       \/ /\ r.kind = "tools"
          /\ nextId + Len(r.names) - 1 <= MaxCalls
          /\ LET calls == [i \in 1..Len(r.names) |->
                              [id |-> nextId + i - 1, name |-> r.names[i]]]
             IN /\ chat_history' = Append(chat_history, AIMessage(t, calls, ""))
                /\ turn' = [turn EXCEPT ![t].pc = "call", ![t].calls = calls,
                                        ![t].idx = 1]
          /\ nextId' = nextId + Len(r.names)
          /\ running' = t
          /\ UNCHANGED <<locked, ready, log, tts, faults>>
    /\ UNCHANGED <<rxpc, wsOpen, dg, stream_sid, nstarts, waiters, fed, rxlog>>
    /\ UNCHANGED http

\* after a tool call is resolved: the next call of the batch, or back to the
\* model (line 247)
Advance(t, tn) ==
    IF tn[t].idx < Len(tn[t].calls)
    THEN [tn EXCEPT ![t].pc = "call", ![t].idx = @ + 1]
    ELSE [tn EXCEPT ![t].pc = "llm"]

\* lines 220-232 for the current tool call, and lines 235-245 when its name
\* is not a registered one (observation stays "")
CallStep(t) ==
    /\ running = t
    /\ turn[t].pc = "call"
    /\ LET call == turn[t].calls[turn[t].idx]
       IN IF call.name \in Registered
          THEN /\ tts' = tts \cup {Pending(t, turn[t].nc + 1, call.id, turn[t].sid)}
               /\ turn' = [turn EXCEPT ![t].pc = IF Awaited("ack") THEN "ack" ELSE "tool",
                                       ![t].nc = @ + 1]
               /\ running' = IF Awaited("ack") THEN 0 ELSE t
               /\ UNCHANGED chat_history
          ELSE /\ chat_history' = Append(chat_history, ToolMessage(t, "", call.id))
               /\ turn' = Advance(t, turn)
               /\ running' = IF turn'[t].pc = "llm" THEN 0 ELSE t
               /\ tts' = tts
    /\ UNCHANGED <<rxpc, wsOpen, dg, stream_sid, nstarts, locked, waiters, ready,
                   nextId, fed, faults, rxlog, log>>
    /\ UNCHANGED http

\* lines 211-247 once the model has issued the MaxCalls tool calls this
\* model records one by one: it requests one more call, of an unregistered
\* tool, and the turn runs the round without an await and is back at line
\* 211.  The rounds past the recorded ones are counted modulo 2 and their
\* messages are left out of chat_history.
LlmReturnBeyond(t) ==
    /\ running = 0
    /\ turn[t].pc = "llm"
    /\ nextId = MaxCalls + 1
    /\ turn' = [turn EXCEPT ![t].more = (@ + 1) % 2]
    /\ UNCHANGED <<rxpc, wsOpen, dg, stream_sid, nstarts, chat_history, locked, waiters,
                   ready, running, nextId, tts, fed, faults, rxlog, log, http>>

\* lines 236-249: send_email.invoke / web_search.invoke, a synchronous call
ToolReturn(t, o) ==
    /\ running = t
    /\ turn[t].pc = "tool"
    /\ o # "result" => faults < MaxFaults
    /\ faults' = IF o = "result" THEN faults ELSE faults + 1
    /\ LET call == turn[t].calls[turn[t].idx]
           exec == Ev(IF o = "result" THEN "tool_result"
                      ELSE IF o = "error_string" THEN "tool_error" ELSE "tool_raise",
                      t, 0, call.id, turn[t].sid)
       IN IF o = "raise"
          THEN /\ EndTurn(t, TRUE, <<exec, Ev("agent_error", t, 0, call.id, turn[t].sid)>>)
               /\ UNCHANGED chat_history
          ELSE /\ chat_history' = Append(chat_history, ToolMessage(t, o, call.id))
               /\ turn' = Advance(t, turn)
               /\ running' = IF turn'[t].pc = "llm" THEN 0 ELSE t
               /\ log' = Append(log, exec)
               /\ UNCHANGED <<locked, ready>>
    /\ UNCHANGED <<rxpc, wsOpen, dg, stream_sid, nstarts, waiters, nextId, tts, fed,
                   rxlog>>
    /\ UNCHANGED http

\* the POST of handle_tts returns (lines 188-200) and the coroutine awaiting
\* handle_tts, if any, goes on
TtsReturn(t, c, o) ==
    /\ running = 0
    /\ \E q \in tts : q.turn = t /\ q.c = c
    /\ o # "200" => faults < MaxFaults
    /\ faults' = IF o = "200" THEN faults ELSE faults + 1
    /\ LET p == CHOOSE q \in tts : q.turn = t /\ q.c = c
       IN /\ tts' = tts \ {p}
          /\ IF t = 0
             THEN /\ rxpc' = IF rxpc = "greet" THEN "recv" ELSE rxpc
                  /\ rxlog' = rxlog \o TtsEffect(p, o)
                  /\ UNCHANGED <<turn, locked, ready, running, log>>
             ELSE IF turn[t].pc = "ack" /\ turn[t].nc = p.c
             THEN /\ turn' = [turn EXCEPT ![t].pc = "tool"]
                  /\ running' = t
                  /\ log' = log \o TtsEffect(p, o)
                  /\ UNCHANGED <<rxpc, locked, ready, rxlog>>
             ELSE IF turn[t].pc = "final" /\ turn[t].nc = p.c
             THEN /\ EndTurn(t, FALSE, TtsEffect(p, o))
                  /\ UNCHANGED <<rxpc, rxlog>>
             ELSE /\ log' = log \o TtsEffect(p, o)
                  /\ UNCHANGED <<rxpc, turn, locked, ready, running, rxlog>>
    /\ UNCHANGED <<wsOpen, dg, stream_sid, nstarts, chat_history, waiters, nextId, fed>>
    /\ UNCHANGED http

\* ------------------------------------------------------------- on_message
\* lines 253-255
Dispatches(e) ==
    /\ e.alternatives # <<>>
    /\ Truthy(e.alternatives[1])
    /\ e.is_final

\* lines 251-258: the recognizer delivers a transcript event
OnMessage(e) ==
    /\ running = 0
    /\ dg = "started"
    /\ IF Dispatches(e)
       THEN /\ NTasks < MaxTurns
            /\ LET t == NTasks + 1
               IN /\ turn' = [turn EXCEPT ![t] = [NoTurn EXCEPT !.pc = "ready",
                                 !.sid = stream_sid, !.text = e.alternatives[1]]]
                  /\ ready' = Append(ready, t)
       ELSE UNCHANGED <<turn, ready>>
    /\ UNCHANGED <<rxpc, wsOpen, dg, stream_sid, nstarts, chat_history, locked,
                   waiters, running, nextId, tts, fed, faults, rxlog, log>>
    /\ UNCHANGED http

\* ---------------------------------------------------- handle_media_stream
\* lines 269-271
RxDgStart(ok) ==
    /\ running = 0
    /\ rxpc = "dgstart"
    /\ IF ok THEN /\ dg' = "started"
                  /\ rxpc' = "recv"
                  /\ wsOpen' = wsOpen
             ELSE /\ dg' = dg
                  /\ rxpc' = "done"
                  /\ wsOpen' = FALSE
    /\ UNCHANGED <<stream_sid, nstarts, chat_history, locked, waiters, ready, turn,
                   running, nextId, tts, fed, faults, rxlog, log>>
    /\ UNCHANGED http

\* the peer drops the connection
Disconnect ==
    /\ wsOpen
    /\ rxpc # "done"
    /\ wsOpen' = FALSE
    /\ UNCHANGED <<rxpc, dg, stream_sid, nstarts, chat_history, locked, waiters,
                   ready, turn, running, nextId, tts, fed, faults, rxlog, log>>
    /\ UNCHANGED http

\* lines 286-291: the loop is left by the break of a stop event or by an
\* exception (disconnect, malformed message, failed forward), and `finally'
\* awaits dg_connection.finish() in every case
AfterLoopUnlessError(cause) == IF cause = "stop" THEN "finish" ELSE "done"

AfterLoop(cause) == "finish"

\* lines 275-289: one round of the receive loop
RxReceive(m) ==
    /\ running = 0
    /\ rxpc = "recv"
    /\ IF ~wsOpen
       THEN \* receive_text raises WebSocketDisconnect
            /\ m = "stop"
            /\ rxpc' = AfterLoop("disconnect")
            /\ rxlog' = Append(rxlog, Ev("ws_error", 0, 0, 0, stream_sid))
            /\ UNCHANGED <<stream_sid, nstarts, tts, fed>>
       ELSE \/ /\ m = "start"
               /\ nstarts < MaxStarts
               /\ nstarts' = nstarts + 1
               /\ stream_sid' = nstarts + 1
               /\ tts' = tts \cup {Pending(0, nstarts + 1, 0, stream_sid')}
               /\ rxpc' = IF Awaited("greeting") THEN "greet" ELSE "recv"
               /\ UNCHANGED <<fed, rxlog>>
            \/ /\ m = "media"
               /\ fed < MaxMedia
               /\ fed' = fed + 1
               /\ UNCHANGED <<rxpc, stream_sid, nstarts, tts, rxlog>>
            \/ /\ m = "mark"
               /\ UNCHANGED <<rxpc, stream_sid, nstarts, tts, fed, rxlog>>
            \/ /\ m = "stop"
               /\ rxpc' = AfterLoop("stop")
               /\ rxlog' = Append(rxlog, Ev("stop", 0, 0, 0, stream_sid))
               /\ UNCHANGED <<stream_sid, nstarts, tts, fed>>
            \/ /\ m = "malformed"
               /\ rxpc' = AfterLoop("malformed")
               /\ rxlog' = Append(rxlog, Ev("ws_error", 0, 0, 0, stream_sid))
               /\ UNCHANGED <<stream_sid, nstarts, tts, fed>>
    /\ UNCHANGED <<wsOpen, dg, chat_history, locked, waiters, ready, turn, running,
                   nextId, faults, log>>
    /\ UNCHANGED http

\* lines 290-291: dg_connection.finish() returns, the handler returns and the
\* server closes the connection
RxFinishReturn ==
    /\ running = 0
    /\ rxpc = "finish"
    /\ rxpc' = "done"
    /\ dg' = "finished"
    /\ wsOpen' = FALSE
    /\ rxlog' = Append(rxlog, Ev("finish", 0, 0, 0, stream_sid))
    /\ UNCHANGED <<stream_sid, nstarts, chat_history, locked, waiters, ready, turn,
                   running, nextId, tts, fed, faults, log>>
    /\ UNCHANGED http

\* ------------------------------------------------------------------ app
\* app serves one HTTP request
HttpRequest(req) ==
    /\ http' = [req |-> req, resp |-> Serve(req)]
    /\ UNCHANGED <<rxpc, wsOpen, dg, stream_sid, nstarts, chat_history, locked, waiters,
                   ready, turn, running, nextId, tts, fed, faults, rxlog, log>>

\* ---------------------------------------------------------- specifications
\* the whole session, every input
Next ==
    \/ \E ok \in BOOLEAN : RxDgStart(ok)
    \/ \E m \in TransportMsgs : RxReceive(m)
    \/ RxFinishReturn
    \/ Disconnect
    \/ \E e \in TranscriptEvents : OnMessage(e)
    \/ \E t \in Turns : TaskStart(t)
    \/ \E t \in Turns, r \in LlmResponses : LlmReturn(t, r)
    \/ \E t \in Turns : LlmReturnBeyond(t)
    \/ \E t \in Turns : CallStep(t)
    \/ \E t \in Turns, o \in ToolOutcomes : ToolReturn(t, o)
    \/ \E t \in Coroutines, c \in Chunks, o \in TtsOutcomes : TtsReturn(t, c, o)
    \/ \E req \in HttpRequests : HttpRequest(req)

Spec == Init /\ [][Next]_vars

\* transcript events with no alternative or with the text "h"
SeqEvents == {e \in TranscriptEvents : e.alternatives \in {<<>>, <<(<<"h">>)>>}}

\* the model answers in text or fails
SeqResponses == {r \in LlmResponses : r.kind # "tools"}

\* the session: the whole receive loop and up to MaxTurns utterances, with a
\* model that answers in text or fails

NextSession ==
    \/ \E ok \in BOOLEAN : RxDgStart(ok)
    \/ \E m \in TransportMsgs : RxReceive(m)
    \/ RxFinishReturn
    \/ Disconnect
    \/ \E e \in SeqEvents : OnMessage(e)
    \/ \E t \in Turns : TaskStart(t)
    \/ \E t \in Turns, r \in SeqResponses : LlmReturn(t, r)
    \/ \E t \in Coroutines, c \in Chunks, o \in TtsOutcomes : TtsReturn(t, c, o)

SpecSession == Init /\ [][NextSession]_vars

\* the synthesizer answers 200 or the request raises
TtsReplies == {"200", "raise"}

\* the turn sequencer: up to MaxTurns utterances of a session whose transport
\* only stops or drops, with a model that answers in text or fails
NextSeq ==
    \/ RxDgStart(TRUE)
    \/ RxReceive("stop")
    \/ RxFinishReturn
    \/ Disconnect
    \/ \E e \in SeqEvents : OnMessage(e)
    \/ \E t \in Turns : TaskStart(t)
    \/ \E t \in Turns, r \in SeqResponses : LlmReturn(t, r)
    \/ \E t \in Coroutines, c \in Chunks, o \in TtsReplies : TtsReturn(t, c, o)

SpecSeq == Init /\ [][NextSeq]_vars

\* the asyncio loop runs every scheduled task, and every awaited call of a
\* collaborator returns or raises
FairSeq ==
    /\ WF_vars(\E t \in Turns : TaskStart(t))
    /\ WF_vars(\E t \in Turns, r \in SeqResponses : LlmReturn(t, r))
    /\ WF_vars(\E t \in Coroutines, c \in Chunks, o \in TtsReplies : TtsReturn(t, c, o))

FairSpecSeq == SpecSeq /\ FairSeq

\* the tool loop: up to ToolTurns utterances of a session whose transport
\* stays open, with every response of the model and of the tools
OnMessageTool(e) == NTasks < ToolTurns /\ OnMessage(e)

NextTool ==
    \/ RxDgStart(TRUE)
    \/ \E e \in SeqEvents : OnMessageTool(e)
    \/ \E t \in Turns : TaskStart(t)
    \/ \E t \in Turns, r \in LlmResponses : LlmReturn(t, r)
    \/ \E t \in Turns : CallStep(t)
    \/ \E t \in Turns, o \in ToolOutcomes : ToolReturn(t, o)
    \/ \E t \in Coroutines, c \in Chunks, o \in TtsReplies : TtsReturn(t, c, o)

SpecTool == Init /\ [][NextTool]_vars

\* the agent loop under contention: up to LoopTurns utterances of a session
\* whose transport stays open, with a model that requests up to LoopCalls
\* tool calls
OnMessageLoop(e) == NTasks < LoopTurns /\ OnMessage(e)

LlmReturnLoop(t, r) == nextId + Len(r.names) - 1 <= LoopCalls /\ LlmReturn(t, r)

NextLoop ==
    \/ RxDgStart(TRUE)
    \/ \E e \in SeqEvents : OnMessageLoop(e)
    \/ \E t \in Turns : TaskStart(t)
    \/ \E t \in Turns, r \in LlmResponses : LlmReturnLoop(t, r)
    \/ \E t \in Turns : CallStep(t)
    \/ \E t \in Turns, o \in ToolOutcomes : ToolReturn(t, o)
    \/ \E t \in Coroutines, c \in Chunks, o \in TtsReplies : TtsReturn(t, c, o)

SpecLoop == Init /\ [][NextLoop]_vars

\* the speech sink: up to LoopTurns utterances of a session whose transport
\* can drop, with a model that answers in text or requests web_search, a
\* tool that does not fail and every outcome of the synthesizer
SinkResponses ==
    {r \in LlmResponses :
        r.kind # "error" /\ \A i \in 1..Len(r.names) : r.names[i] = "web_search"}

NextSink ==
    \/ RxDgStart(TRUE)
    \/ Disconnect
    \/ \E e \in SeqEvents : OnMessageLoop(e)
    \/ \E t \in Turns : TaskStart(t)
    \/ \E t \in Turns, r \in SinkResponses : LlmReturnLoop(t, r)
    \/ \E t \in Turns : CallStep(t)
    \/ \E t \in Turns : ToolReturn(t, "result")
    \/ \E t \in Coroutines, c \in Chunks, o \in TtsOutcomes : TtsReturn(t, c, o)

SpecSink == Init /\ [][NextSink]_vars

\* the HTTP surface: every request
NextHttp == \E req \in HttpRequests : HttpRequest(req)

SpecHttp == Init /\ [][NextHttp]_vars

\* the unbounded tool loop: the tool loop with a model that goes on
\* requesting tool calls
NextSpin ==
    \/ RxDgStart(TRUE)
    \/ \E e \in SeqEvents : OnMessageTool(e)
    \/ \E t \in Turns : TaskStart(t)
    \/ \E t \in Turns, r \in LlmResponses : LlmReturn(t, r)
    \/ \E t \in Turns : LlmReturnBeyond(t)
    \/ \E t \in Turns : CallStep(t)
    \/ \E t \in Turns, o \in ToolOutcomes : ToolReturn(t, o)
    \/ \E t \in Coroutines, c \in Chunks, o \in TtsReplies : TtsReturn(t, c, o)

SpecSpin == Init /\ [][NextSpin]_vars

\* the asyncio loop runs every scheduled task and every synchronous stretch,
\* and every model invocation, tool execution and synthesis call returns or
\* raises
FairSpin ==
    /\ WF_vars(\E t \in Turns : TaskStart(t))
    /\ WF_vars(\E t \in Turns :
                  (\E r \in LlmResponses : LlmReturn(t, r)) \/ LlmReturnBeyond(t))
    /\ WF_vars(\E t \in Turns : CallStep(t))
    /\ WF_vars(\E t \in Turns, o \in ToolOutcomes : ToolReturn(t, o))
    /\ WF_vars(\E t \in Coroutines, c \in Chunks, o \in TtsReplies : TtsReturn(t, c, o))

FairSpecSpin == SpecSpin /\ FairSpin

\* the same with a model that stops requesting tools after MaxCalls calls
FairSpecTool == SpecTool /\ FairSpin

\* the receive loop beside the tool loop: every transport message and up to
\* ToolTurns utterances, with every response of the model and of the tools
NextRx ==
    \/ \E ok \in BOOLEAN : RxDgStart(ok)
    \/ \E m \in TransportMsgs : RxReceive(m)
    \/ RxFinishReturn
    \/ Disconnect
    \/ \E e \in SeqEvents : OnMessageTool(e)
    \/ \E t \in Turns : TaskStart(t)
    \/ \E t \in Turns, r \in LlmResponses : LlmReturn(t, r)
    \/ \E t \in Turns : CallStep(t)
    \/ \E t \in Turns, o \in ToolOutcomes : ToolReturn(t, o)
    \/ \E t \in Coroutines, c \in Chunks, o \in TtsReplies : TtsReturn(t, c, o)

SpecRx == Init /\ [][NextRx]_vars

\* the transport: the whole receive loop and up to ToolTurns utterances, with
\* a model that answers in text
NextTransport ==
    \/ \E ok \in BOOLEAN : RxDgStart(ok)
    \/ \E m \in TransportMsgs : RxReceive(m)
    \/ RxFinishReturn
    \/ Disconnect
    \/ \E e \in SeqEvents : OnMessageTool(e)
    \/ \E t \in Turns : TaskStart(t)
    \/ \E t \in Turns : LlmReturn(t, [kind |-> "text", content |-> "answer", names |-> <<>>])
    \/ \E t \in Coroutines, c \in Chunks, o \in TtsReplies : TtsReturn(t, c, o)

SpecTransport == Init /\ [][NextTransport]_vars

\* the utterance finalizer: every transcript event, with a model that answers
\* in text and a synthesizer that succeeds
NextFin ==
    \/ RxDgStart(TRUE)
    \/ RxReceive("stop")
    \/ RxFinishReturn
    \/ \E e \in TranscriptEvents : OnMessage(e)
    \/ \E t \in Turns : TaskStart(t)
    \/ \E t \in Turns : LlmReturn(t, [kind |-> "text", content |-> "answer", names |-> <<>>])
    \/ \E t \in Coroutines, c \in Chunks : TtsReturn(t, c, "200")

SpecFin == Init /\ [][NextFin]_vars

\* ------------------------------------------------------------- properties
TypeOK ==
    /\ rxpc \in {"dgstart", "recv", "greet", "finish", "done"}
    /\ running \in 0..MaxTurns
    /\ nextId \in 1..(MaxCalls + 1)

\* the turn is inside `async with processing_lock'
Holding(t) == turn[t].pc \in {"llm", "call", "ack", "tool", "final"}

UserMessages == SelectSeq(chat_history, LAMBDA m : m.role = "user")

\* C1: at most one turn is inside the agent loop at any time, and the
\* messages of one turn are contiguous in chat_history: where the turn
\* changes from one message to the next, the new turn has no earlier message.
C1_OneTurnAtATime ==
    /\ Cardinality({t \in Turns : Holding(t)}) <= 1
    /\ \A j \in 2..Len(chat_history) :
          chat_history[j].uid # chat_history[j - 1].uid
              => \A i \in 1..(j - 1) : chat_history[i].uid # chat_history[j].uid

\* a second utterance was dispatched while the first turn was in its agent
\* loop, waited for the lock, and is now in its own agent loop after it
C1_Witness ==
    /\ turn[1].pc = "done"
    /\ turn[2].pos > 0
    /\ Holding(2)
    /\ \E i \in 1..Len(chat_history) : chat_history[i].role = "tool"

\* C2: the user messages of chat_history are the dispatched utterances in
\* dispatch order: the i-th user message is the i-th utterance on_message
\* dispatched, with its text, none missing before it and none merged.
C2_FinalizationOrder ==
    \A i \in 1..Len(UserMessages) :
        /\ UserMessages[i].uid = i
        /\ UserMessages[i].content = turn[i].text

\* two turns waited on the lock at once and all three were processed
C2_Witness ==
    /\ Len(UserMessages) = 3
    /\ turn[2].pos = 1
    /\ turn[3].pos = 2

\* the tool-result messages that follow the i-th message and carry identifier id
ResultsFor(i, id) ==
    {j \in (i + 1)..Len(chat_history) :
        chat_history[j].role = "tool" /\ chat_history[j].call_id = id}

\* every tool-call request of chat_history has exactly one result after it
AllCallsResolved ==
    \A i \in 1..Len(chat_history) :
        \A k \in 1..Len(chat_history[i].calls) :
            Cardinality(ResultsFor(i, chat_history[i].calls[k].id)) = 1

LogHas(ev, t) == \E i \in 1..Len(log) : log[i].ev = ev /\ log[i].turn = t

\* C3: while the model is being invoked, and when no turn is in progress
\* (every turn so far completed or was aborted), each tool-call request in
\* chat_history is followed by exactly one tool-result with its identifier.
C3_EveryCallHasOneResult ==
    ((\E t \in Turns : turn[t].pc = "llm") \/ (\A t \in Turns : ~Holding(t)))
        => AllCallsResolved

\* C4: a tool invocation that failed, by an error result or by raising, has
\* a tool-result message in chat_history, did not end the turn with an
\* error, and the turn goes on to invoke the model again.
C4_ToolFailureDoesNotAbort ==
    \A i \in 1..Len(log) :
        log[i].ev \in {"tool_error", "tool_raise"} =>
            LET t == log[i].turn
                id == log[i].call
            IN /\ \E j \in 1..Len(chat_history) :
                      /\ chat_history[j].role = "tool"
                      /\ chat_history[j].call_id = id
                      /\ chat_history[j].content # ""
               /\ ~\E k \in 1..Len(log) :
                      log[k].ev = "agent_error" /\ log[k].call = id
               /\ \/ turn[t].pc \in {"call", "ack", "tool", "llm"}
                  \/ \E j, k \in 1..Len(chat_history) :
                        /\ j < k
                        /\ chat_history[j].call_id = id
                        /\ chat_history[k].role = "assistant"
                        /\ chat_history[k].uid = t
                  \/ \E k \in (i + 1)..Len(log) :
                        log[k].ev = "agent_error" /\ log[k].turn = t /\ log[k].call = 0

\* C5: the lock is held exactly while a turn is inside `async with', so it is
\* free again after every turn, failed or not; and a turn waiting for the
\* lock is never stranded: the lock is held, or the first waiter has been
\* scheduled to take it.
C5_LockAlwaysReleased ==
    /\ locked <=> \E t \in Turns : Holding(t)
    /\ waiters # <<>> => (locked \/ InSeq(Head(waiters), ready))

\* the first turn was aborted by an exception and the second utterance,
\* which waited behind it, holds the lock and is in chat_history
C5_Witness ==
    /\ LogHas("agent_error", 1)
    /\ turn[2].pos > 0
    /\ Holding(2)
    /\ Len(UserMessages) = 2

ChunkEvents == {"frame", "tts_error", "tts_exception"}
ToolEvents == {"tool_result", "tool_error", "tool_raise"}

\* C6: in the log of a turn, frames appear in the order in which the turn
\* produced their chunks; the acknowledgment chunk of a tool call is sent or
\* skipped before that tool is executed and never after; and nothing of the
\* turn is sent after its final-answer chunk.
C6_ChunkOrderWithinTurn ==
    /\ \A i, j \in 1..Len(log) :
          (i < j /\ log[i].ev = "frame" /\ log[j].ev = "frame"
                 /\ log[i].turn = log[j].turn) => log[i].c < log[j].c
    /\ \A j \in 1..Len(log) :
          log[j].ev \in ToolEvents =>
              /\ \E i \in 1..(j - 1) :
                    log[i].ev \in ChunkEvents /\ log[i].call = log[j].call
              /\ \A i \in (j + 1)..Len(log) :
                    ~(log[i].ev \in ChunkEvents /\ log[i].call = log[j].call)
    /\ \A i, j \in 1..Len(log) :
          (i < j /\ log[i].ev = "frame" /\ log[i].call = 0
                 /\ log[j].turn = log[i].turn) => log[j].ev = "release"

\* one turn sent two acknowledgment frames and its final answer
C6_Witness ==
    \E i, j, k \in 1..Len(log) :
        /\ i < j /\ j < k
        /\ log[i].ev = "frame" /\ log[i].call = 1
        /\ log[j].ev = "frame" /\ log[j].call = 2
        /\ log[k].ev = "frame" /\ log[k].call = 0
        /\ log[i].turn = log[k].turn /\ log[j].turn = log[k].turn

\* C7: a synthesis request in flight belongs to the turn that holds the
\* lock; every chunk of a turn is sent or skipped before a later turn
\* acquires the lock; and frames appear on the transport in turn order.
C7_ChunkOrderAcrossTurns ==
    /\ \A p \in tts : p.turn # 0 => Holding(p.turn)
    /\ \A i, j \in 1..Len(log) :
          (log[i].ev \in ChunkEvents /\ log[j].ev = "acquire"
                 /\ log[i].turn < log[j].turn) => i < j
    /\ \A i, j \in 1..Len(log) :
          (i < j /\ log[i].ev = "frame" /\ log[j].ev = "frame")
              => log[i].turn <= log[j].turn

\* the second utterance became final while the first turn was running,
\* and both turns sent frames, one of them an acknowledgment
C7_Witness ==
    /\ turn[2].pos > 0
    /\ \E i, j \in 1..Len(log) :
          /\ log[i].ev = "frame" /\ log[i].turn = 1 /\ log[i].call > 0
          /\ log[j].ev = "frame" /\ log[j].turn = 2

\* the session is closed: the receive loop has left its loop (stop event,
\* disconnect or error) or the connection is down
Closed == rxpc \in {"finish", "done"} \/ ~wsOpen

NewFrames(old, new) ==
    {i \in (Len(old) + 1)..Len(new) : new[i].ev = "frame"}

\* C8: a step taken when the session is closed sends no frame, neither for
\* a chunk of a turn nor for the greeting.
C8_NoFrameAfterClose ==
    [][Closed => (NewFrames(log, log') = {} /\ NewFrames(rxlog, rxlog') = {})]_vars

\* C9: a transcript event makes on_message dispatch a turn exactly when the
\* event is final and its text is non-empty after trimming whitespace.
C9_DispatchIffFinalNonBlank ==
    [][\A e \in TranscriptEvents :
          OnMessage(e) =>
              ((NTasks' = NTasks + 1) <=> (e.is_final /\ Trim(EventText(e)) # <<>>))]_vars

InHistory(t) ==
    \E i \in 1..Len(chat_history) :
        chat_history[i].role = "user" /\ chat_history[i].uid = t

\* C10: every dispatched utterance is eventually appended to chat_history
\* as a user message, and never more than once, also when it was dispatched
\* while another turn held the lock.
C10_DeferredNotDropped ==
    /\ \A t \in Turns : (turn[t].pc # "none") ~> InHistory(t)
    /\ [](\A t \in Turns :
            Cardinality({i \in 1..Len(chat_history) :
                chat_history[i].role = "user" /\ chat_history[i].uid = t}) <= 1)

\* an utterance that queued behind another waiter is in chat_history
C10_Witness ==
    /\ turn[3].pos = 2
    /\ InHistory(3)
    /\ turn[3].pc = "done"

\* the model invocation of a turn raised: entries of the log
ModelFailed(i) == log[i].ev = "agent_error" /\ log[i].call = 0

ErrorResponse == [kind |-> "error", content |-> "", names |-> <<>>]

LastOf(t) ==
    LET idx == {i \in 1..Len(chat_history) : chat_history[i].uid = t}
    IN chat_history[CHOOSE i \in idx : \A j \in idx : j <= i]

\* C11 as stated: a turn whose model invocation failed has sent no frame
\* at all, also none before the failure.
C11_NoSpokenTextInTurn ==
    \A i, j \in 1..Len(log) :
        ModelFailed(i) => ~(log[j].ev = "frame" /\ log[j].turn = log[i].turn)

\* C11 amended: the step in which a model invocation fails logs the failure
\* and ends the turn; from then on the turn invokes neither the model nor a
\* tool (its last message in chat_history stays the user message or a tool
\* result, and nothing but the release follows the failure in its log) and
\* no chunk of it is spoken or in flight.
C11_ModelFailureAborts ==
    /\ [][\A t \in Turns :
            LlmReturn(t, ErrorResponse) =>
                /\ turn'[t].pc = "done"
                /\ Len(log') = Len(log) + 2
                /\ log'[Len(log) + 1] = Ev("agent_error", t, 0, 0, turn[t].sid)
                /\ chat_history' = chat_history]_vars
    /\ [](\A i \in 1..Len(log) :
            ModelFailed(i) =>
                LET t == log[i].turn
                IN /\ turn[t].pc = "done"
                   /\ \A j \in (i + 1)..Len(log) :
                         log[j].turn = t => log[j].ev = "release"
                   /\ ~\E p \in tts : p.turn = t
                   /\ LastOf(t).role \in {"user", "tool"})

\* the model failed in the second round of a turn: the acknowledgment of the
\* first round was sent, the tool ran, and the turn is over
C11_Witness ==
    \E i, j, k \in 1..Len(log) :
        /\ i < j /\ j < k
        /\ log[i].ev = "frame" /\ log[i].call > 0
        /\ log[j].ev \in {"tool_result", "tool_error"} /\ log[j].turn = log[i].turn
        /\ ModelFailed(k) /\ log[k].turn = log[i].turn
        /\ turn[log[k].turn].pc = "done"

\* the tool-call requests of chat_history: <<message index, call>>
Requests ==
    UNION {{<<i, chat_history[i].calls[k]>> : k \in 1..Len(chat_history[i].calls)} :
              i \in 1..Len(chat_history)}

\* a tool-result content that tells the model the call failed
ReportsFailure(content) == content = "error_string"

\* C12: a tool call with an unregistered name, once the turn is past it, has
\* a tool-result whose content reports the failure, the turn was not ended
\* by an error at that call, and the turn goes on to the model.
C12_UnregisteredToolSurfaced ==
    \A q \in Requests :
        LET i == q[1]
            call == q[2]
            t == chat_history[i].uid
            past == \/ turn[t].pc \in {"llm", "final", "done"}
                    \/ \E k \in 1..Len(turn[t].calls) :
                          turn[t].calls[k] = call /\ k < turn[t].idx
        IN (call.name \notin Registered /\ past) =>
              /\ \E j \in ResultsFor(i, call.id) :
                    ReportsFailure(chat_history[j].content)
              /\ ~\E k \in 1..Len(log) :
                    log[k].ev = "agent_error" /\ log[k].call = call.id

\* chunk events of coroutine t (0: the receive loop) in its log
ChunkLog(t) == IF t = 0 THEN rxlog ELSE log

EventsOf(t, c) ==
    {i \in 1..Len(ChunkLog(t)) :
        /\ ChunkLog(t)[i].ev \in ChunkEvents
        /\ ChunkLog(t)[i].turn = t
        /\ ChunkLog(t)[i].c = c}

\* C13: the return of a synthesis request settles its chunk with exactly one
\* entry: a frame when the POST answered 200 and the send succeeded, else a
\* logged failure and no frame; whatever the outcome, the coroutine that
\* awaited the chunk goes on as after a success (the acknowledgment to its
\* tool, the final answer to the release of the lock, the greeting to the
\* receive loop).  A chunk is never settled twice, and an empty answer
\* produces no chunk.
C13_FailedChunkSkippedOnly ==
    /\ [][\A t \in Coroutines, c \in Chunks, o \in TtsOutcomes :
            TtsReturn(t, c, o) =>
                LET before == IF t = 0 THEN rxlog ELSE log
                    after == IF t = 0 THEN rxlog' ELSE log'
                    e == after[Len(before) + 1]
                IN /\ Len(after) > Len(before)
                   /\ e.turn = t /\ e.c = c
                   /\ e.ev = IF o = "200" /\ wsOpen THEN "frame"
                             ELSE IF o = "status" THEN "tts_error"
                             ELSE "tts_exception"
                   /\ NewFrames(before, after) \subseteq {Len(before) + 1}
                   /\ (t # 0 /\ turn[t].pc = "ack") => turn'[t].pc = "tool"
                   /\ (t # 0 /\ turn[t].pc = "final") => (turn'[t].pc = "done" /\ ~locked')
                   /\ (t = 0 /\ rxpc = "greet") => rxpc' = "recv"]_vars
    /\ [](\A t \in Coroutines, c \in Chunks : Cardinality(EventsOf(t, c)) <= 1)
    /\ [](\A i \in 1..Len(chat_history) :
            (/\ chat_history[i].role = "assistant"
             /\ chat_history[i].calls = <<>>
             /\ chat_history[i].content = "")
                => /\ ~\E p \in tts : p.turn = chat_history[i].uid /\ p.call = 0
                   /\ ~\E j \in 1..Len(log) :
                         /\ log[j].ev \in ChunkEvents
                         /\ log[j].turn = chat_history[i].uid
                         /\ log[j].call = 0)

\* the acknowledgment of a turn failed with a non-200 status, the same turn
\* then sent its final answer, and the next turn sent a frame too
C13_Witness ==
    \E i, j, k \in 1..Len(log) :
        /\ i < j /\ j < k
        /\ log[i].ev = "tts_error" /\ log[i].call > 0
        /\ log[j].ev = "frame" /\ log[j].turn = log[i].turn /\ log[j].call = 0
        /\ log[k].ev = "frame" /\ log[k].turn > log[i].turn

\* the elements of a document with the given tag, down to the third level
ElementsOf(doc, tag) ==
    LET l1 == {doc}
        l2 == UNION {{d.children[i] : i \in 1..Len(d.children)} : d \in l1}
        l3 == UNION {{d.children[i] : i \in 1..Len(d.children)} : d \in l2}
    IN {d \in l1 \cup l2 \cup l3 : d.tag = tag}

ChildrenOf(d) == {d.children[i] : i \in 1..Len(d.children)}

\* C14: the response to POST /voice is a TwiML document with a Connect
\* element holding a Stream whose url is <scheme>://<host>/media-stream, the
\* scheme being wss exactly when x-forwarded-proto is https or the host
\* contains "ngrok".
C14_VoiceReturnsStreamTwiml ==
    (http.req.method = "POST" /\ http.req.path = "/voice") =>
        /\ http.resp.status = 200
        /\ \E c \in ElementsOf(http.resp.doc, "Connect") :
              \E st \in ChildrenOf(c) :
                  /\ st.tag = "Stream"
                  /\ \E scheme \in {Ws, Wss} :
                        /\ st.url = scheme \o <<":", "/", "/">> \o http.req.host
                                        \o MediaStreamPath
                        /\ scheme = Wss <=>
                              \/ http.req.proto = <<"https">>
                              \/ \E i \in 1..(Len(http.req.host) - 4) :
                                    SubSeq(http.req.host, i, i + 4) = Ngrok

\* POST /voice from behind an ngrok tunnel without x-forwarded-proto
C14_Witness ==
    /\ http.req.method = "POST" /\ http.req.path = "/voice"
    /\ http.req.proto = <<>>
    /\ Contains(http.req.host, Ngrok)
    /\ http.resp.status = 200

\* C15: a POST to /respond with the form field SpeechResult is answered with
\* status 200 and a TwiML body that contains a Say element.
C15_RespondSaysTwiml ==
    (/\ http.req.method = "POST"
     /\ http.req.path = "/respond"
     /\ http.req.form = <<"SpeechResult">>) =>
        /\ http.resp.status = 200
        /\ ElementsOf(http.resp.doc, "Say") # {}

\* C16: every turn that acquires the lock eventually releases it, whatever
\* the model answers, provided every model invocation, tool execution and
\* synthesis call returns or raises.
C16_TurnTerminates ==
    \A t \in Turns : Holding(t) ~> (turn[t].pc = "done" /\ ~Holding(t))

\* the turn is waiting for the model, for a tool or for the synthesizer
Waiting(t) == turn[t].pc \in {"llm", "tool", "ack", "final"}

\* C17: while a turn is waiting for a model invocation, a tool execution or
\* a synthesis call, the receive loop waiting for a transport frame can take
\* it (a mark, or media to forward to the recognizer), and the recognizer
\* callback can run and return.
C17_ReceiveLoopNeverBlocked ==
    \A t \in Turns :
        (Waiting(t) /\ rxpc = "recv" /\ wsOpen) =>
            /\ ENABLED RxReceive("mark")
            /\ fed < MaxMedia => ENABLED RxReceive("media")
            /\ \A e \in SeqEvents : ~Dispatches(e) => ENABLED OnMessage(e)

\* the lifecycle state of the session: closed once the receive loop has ended
\* or the connection is down, streaming after a start event, else created
Lifecycle ==
    IF Closed THEN "closed"
    ELSE IF nstarts > 0 THEN "streaming"
    ELSE "created"

\* C18: a step acts on a start event (identifier assigned, greeting
\* requested) only in created, forwards media to the recognizer only in
\* streaming, and changes nothing of the transport's doing once closed.
C18_EventsOnlyInTheirState ==
    [][/\ (nstarts' # nstarts \/ stream_sid' # stream_sid) => Lifecycle = "created"
       /\ fed' # fed => Lifecycle = "streaming"
       /\ Lifecycle = "closed" =>
             (nstarts' = nstarts /\ stream_sid' = stream_sid /\ fed' = fed)]_vars

FinishCount == Cardinality({i \in 1..Len(rxlog) : rxlog[i].ev = "finish"})

\* the receive loop was left: by a stop event, or by an exception
LoopEnded == \E i \in 1..Len(rxlog) : rxlog[i].ev \in {"stop", "ws_error"}

\* C19: once the receive loop has ended, by a stop event, a disconnect or an
\* error, the handler is in or past dg_connection.finish(); when it has
\* returned after the recognizer was started, the recognizer is finished,
\* finish was called exactly once and the connection is closed; finish is
\* never called twice, and nothing is fed to a finished recognizer.
C19_RecognizerReleasedOnce ==
    /\ [](LoopEnded => rxpc \in {"finish", "done"})
    /\ []((rxpc = "done" /\ dg # "new") =>
             (dg = "finished" /\ FinishCount = 1 /\ ~wsOpen))
    /\ []((rxpc = "done" /\ dg = "new") => (~LoopEnded /\ FinishCount = 0))
    /\ [](FinishCount <= 1)
    /\ [][dg = "finished" => fed' = fed]_vars

\* media was forwarded, the loop ended by an exception, and the handler
\* returned after finish
C19_Witness ==
    /\ fed > 0
    /\ rxpc = "done"
    /\ \E i, j \in 1..Len(rxlog) :
          i < j /\ rxlog[i].ev = "ws_error" /\ rxlog[j].ev = "finish"

\* C20: every frame sent, of a turn or of the greeting, carries the
\* identifier the start event assigned: it is not the unassigned value and
\* it is the current stream_sid.
C20_FramesCarryAssignedSid ==
    [][/\ \A i \in NewFrames(log, log') :
             log'[i].sid # NoSid /\ log'[i].sid = stream_sid
       /\ \A i \in NewFrames(rxlog, rxlog') :
             rxlog'[i].sid # NoSid /\ rxlog'[i].sid = stream_sid]_vars

====
